---- MODULE Spec2Model ----
(***************************************************************************)
(* Model of mujoco_warp/_src/collision_core.py: the contact commit         *)
(* protocol (write_contact), the contact parameter resolver                *)
(* (contact_params) and the geometry view builder (geom_collision_pair).   *)
(*                                                                         *)
(* Floating point quantities are modelled by integers in a unit fixed per  *)
(* quantity (stated where the quantity is introduced); only their order    *)
(* and the arithmetic the code performs on them matter.                    *)
(***************************************************************************)
EXTENDS Integers, Sequences, FiniteSets, TLC

(***************************************************************************)
(* Bounds of the model.                                                    *)
(***************************************************************************)
\* number of candidate pairs of one step, one write_contact task each
NTasks == 3
\* capacity of the contact buffer, the value passed as naconmax_in
naconmax == 2

Tasks == 1..NTasks

(***************************************************************************)
(* ContactType flags (mujoco_warp/_src/types.py).                          *)
(***************************************************************************)
CONSTRAINT == 1
SENSOR == 2

\* a | flag, for a flag that is a single bit
BitOr(a, flag) == IF (a \div flag) % 2 = 1 THEN a ELSE a + flag
HasFlag(a, flag) == (a \div flag) % 2 = 1

(***************************************************************************)
(* Arguments of write_contact.  A candidate is the part of the arguments   *)
(* the function branches or computes on: pairid_in, dist_in, margin_in and *)
(* gap_in.  The remaining arguments (pos_in, frame_in, condim_in,          *)
(* friction_in, solref_in, solreffriction_in, solimp_in, geoms_in,         *)
(* worldid_in) are copied verbatim into the record; the value candidate i  *)
(* passes for them is named by i, as is id_.                               *)
(***************************************************************************)
\* dist_in, margin_in, gap_in: dist = margin is the boundary of "active"
DistVals == {1, 2}
MarginVals == {2}
GapVals == {1}

Candidates ==
  [pairid : {-2, -1, 0} \X {-1, 0}, dist : DistVals, margin : MarginVals, gap : GapVals]

\* the candidates of a concurrently executed step: an inactive pair without a sensor
\* (dropped), an active pair without a sensor, an inactive skipped pair with a sensor
StepCandidates ==
  << [pairid |-> <<-1, -1>>, dist |-> 2, margin |-> 2, gap |-> 1],
     [pairid |-> <<-1, -1>>, dist |-> 1, margin |-> 2, gap |-> 1],
     [pairid |-> <<-2, 0>>, dist |-> 2, margin |-> 2, gap |-> 1] >>

\* The tasks of a step differ in their candidate only, so the candidate lists of a
\* concurrently executed step are taken up to a permutation of the tasks.
StepLists ==
  { [t \in Tasks |-> StepCandidates[k[t]]] :
      k \in { j \in [Tasks -> 1..Len(StepCandidates)] :
                \A t, u \in Tasks : t < u => j[t] <= j[u] } }

\* FieldOrder with the store of line 224 left out
FieldOrderWithoutType ==
  << "dist", "pos", "frame", "geom", "worldid", "includemargin", "dim", "friction",
     "solref", "solreffriction", "solimp", "geomcollisionid" >>

\* the contact_*_out arrays, in the order write_contact stores into them
FieldOrder ==
  << "dist", "pos", "frame", "geom", "worldid", "includemargin", "dim", "friction",
     "solref", "solreffriction", "solimp", "type", "geomcollisionid" >>

\* the contact_*_out arrays of the signature (lines 177-189)
Fields ==
  { "dist", "pos", "frame", "includemargin", "friction", "solref", "solreffriction",
    "solimp", "dim", "geom", "worldid", "type", "geomcollisionid" }

\* A cell of a contact_*_out array is << >> while it holds what an earlier step left
\* there and <<v>> once a task of the step has stored v into it.
Stale == << >>

VARIABLES
  cand,     \* cand[t]: the arguments of task t's write_contact call
  nacon,    \* nacon_out[0], the shared counter
  contact,  \* contact[i][f]: cell i of the array contact_<f>_out
  pc,       \* pc[t]: "call" (not started), "store" (inside the bounds-checked block), "done"
  cid,      \* cid[t]: the index task t got from atomic_add, -1 before
  nstored,  \* nstored[t]: number of stores of lines 212-225 task t has performed
  ret,      \* ret[t]: the value task t returned, -1 before it returns
  writes,   \* history: <<i, f, t>> for every store task t performed into cell i of contact_<f>_out
  res       \* the last call of contact_params or geom_collision_pair: its inputs and what it returned

vars == << cand, nacon, contact, pc, cid, nstored, ret, writes, res >>

\* res before any call
NoCall == [fn |-> "none"]

(***************************************************************************)
(* write_contact                                                           *)
(***************************************************************************)
\* line 196
Active(c) == c.dist < c.margin

\* Dropped without the test for a collision sensor
DroppedIgnoringSensor(c) == c.pairid[1] = -2 \/ ~Active(c)

\* line 199: skip contact and no collision sensor
Dropped(c) == (c.pairid[1] = -2 \/ ~Active(c)) /\ c.pairid[2] = -1

\* ContactTypeOf with CONSTRAINT set for an inactive contact too
ContactTypeOfIgnoringActive(c) ==
  LET t0 == 0
      t1 == IF c.pairid[1] >= -1 THEN BitOr(t0, CONSTRAINT) ELSE t0
  IN  IF c.pairid[2] >= 0 THEN BitOr(t1, SENSOR) ELSE t1

\* lines 202-208
ContactTypeOf(c) ==
  LET t0 == 0
      t1 == IF c.pairid[1] >= -1 /\ Active(c) THEN BitOr(t0, CONSTRAINT) ELSE t0
  IN  IF c.pairid[2] >= 0 THEN BitOr(t1, SENSOR) ELSE t1

\* AtomicAdd with the update lost
AtomicAddLost(n, v) == n

\* line 210: the value atomic_add leaves in nacon_out[0]
AtomicAdd(n, v) == n + v

\* InBounds off by one
InBoundsInclusive(i) == i <= naconmax

\* line 211
InBounds(i) == i < naconmax

\* lines 212-225: the value stored into contact_<f>_out[cid] by task t
StoredValue(f, t, c) ==
  CASE f = "dist" -> c.dist
    [] f = "includemargin" -> c.margin - c.gap
    [] f = "type" -> ContactTypeOf(c)
    [] OTHER -> t

\* StoreInto with the reserved index ignored
StoreIntoFirst(a, i, f, v) == [a EXCEPT ![0] = [@ EXCEPT ![f] = <<v>>]]

\* a store into cell i of contact_<f>_out; cells outside the array are not part of contact
StoreInto(a, i, f, v) ==
  IF i \in DOMAIN a THEN [a EXCEPT ![i] = [@ EXCEPT ![f] = <<v>>]] ELSE a

\* line 226
ReturnValue(c) == IF Active(c) THEN 1 ELSE 0

EmptyBuffer == [i \in 0..(naconmax - 1) |-> [f \in Fields |-> Stale]]

\* the step starts with the counter reset; cs are the candidate lists of the step
InitCommit(cs) ==
  /\ cand \in cs
  /\ nacon = 0
  /\ contact = EmptyBuffer
  /\ pc = [t \in Tasks |-> "call"]
  /\ cid = [t \in Tasks |-> -1]
  /\ nstored = [t \in Tasks |-> 0]
  /\ ret = [t \in Tasks |-> -1]
  /\ writes = {}
  /\ res = NoCall

\* lines 196-200: the early return
Drop(t) ==
  /\ pc[t] = "call"
  /\ Dropped(cand[t])
  /\ pc' = [pc EXCEPT ![t] = "done"]
  /\ ret' = [ret EXCEPT ![t] = 0]
  /\ UNCHANGED << cand, nacon, contact, cid, nstored, writes, res >>

\* lines 196-211, 227: reserve an index; past the capacity return 0
Reserve(t) ==
  /\ pc[t] = "call"
  /\ ~Dropped(cand[t])
  /\ nacon' = AtomicAdd(nacon, 1)
  /\ cid' = [cid EXCEPT ![t] = nacon]
  /\ IF InBounds(nacon)
       THEN /\ pc' = [pc EXCEPT ![t] = "store"]
            /\ ret' = ret
       ELSE /\ pc' = [pc EXCEPT ![t] = "done"]
            /\ ret' = [ret EXCEPT ![t] = 0]
  /\ UNCHANGED << cand, contact, nstored, writes, res >>

\* lines 212-226: the next store of task t; after the last one it returns int(active)
Store(t) ==
  /\ pc[t] = "store"
  /\ LET k == nstored[t] + 1
         f == FieldOrder[k]
     IN  /\ contact' = StoreInto(contact, cid[t], f, StoredValue(f, t, cand[t]))
         /\ writes' = writes \cup {<<cid[t], f, t>>}
         /\ nstored' = [nstored EXCEPT ![t] = k]
         /\ IF k = Len(FieldOrder)
              THEN /\ pc' = [pc EXCEPT ![t] = "done"]
                   /\ ret' = [ret EXCEPT ![t] = ReturnValue(cand[t])]
              ELSE UNCHANGED << pc, ret >>
  /\ UNCHANGED << cand, nacon, cid, res >>

\* the tasks of one step run concurrently, interleaved at every access to shared memory
Init == InitCommit(StepLists)

Next == \E t \in Tasks : Drop(t) \/ Reserve(t) \/ Store(t)

Spec == Init /\ [][Next]_vars

(***************************************************************************)
(* Serial execution of the step: the tasks run write_contact to completion *)
(* one after the other in task order (a launch on one thread), over every  *)
(* candidate of Candidates.                                                *)
(***************************************************************************)
RECURSIVE StoreFrom(_, _, _, _, _)
\* the stores of lines 212-225 from the k-th on
StoreFrom(a, i, t, c, k) ==
  IF k > Len(FieldOrder)
    THEN a
    ELSE StoreFrom(StoreInto(a, i, FieldOrder[k], StoredValue(FieldOrder[k], t, c)), i, t, c, k + 1)

\* lines 196-227: a whole call of write_contact
Call(t) ==
  /\ pc[t] = "call"
  /\ \A u \in Tasks : u < t => pc[u] = "done"
  /\ pc' = [pc EXCEPT ![t] = "done"]
  /\ IF Dropped(cand[t])
       THEN /\ ret' = [ret EXCEPT ![t] = 0]
            /\ UNCHANGED << nacon, contact, cid, nstored, writes >>
       ELSE /\ nacon' = AtomicAdd(nacon, 1)
            /\ cid' = [cid EXCEPT ![t] = nacon]
            /\ IF InBounds(nacon)
                 THEN /\ contact' = StoreFrom(contact, nacon, t, cand[t], 1)
                      /\ writes' = writes \cup { <<nacon, FieldOrder[k], t>> : k \in 1..Len(FieldOrder) }
                      /\ nstored' = [nstored EXCEPT ![t] = Len(FieldOrder)]
                      /\ ret' = [ret EXCEPT ![t] = ReturnValue(cand[t])]
                 ELSE /\ ret' = [ret EXCEPT ![t] = 0]
                      /\ UNCHANGED << contact, nstored, writes >>
  /\ UNCHANGED << cand, res >>

InitSeq == InitCommit([Tasks -> Candidates])

NextSeq == \E t \in Tasks : Call(t)

SpecSeq == InitSeq /\ [][NextSeq]_vars

(***************************************************************************)
(* Model and step data read by contact_params and geom_collision_pair.     *)
(* A per-world array has shape[0] = 1 (one row shared by all worlds) or    *)
(* shape[0] = nworld; the arrays of Data (geom_xpos, geom_xmat) always     *)
(* have nworld rows.  The rows of an array are taken equal here, and the   *)
(* row the code indexes is recorded next to the values it returns.  A read *)
(* past the last row yields whatever the memory holds.                     *)
(***************************************************************************)
\* number of worlds of the batch
NWorld == 2

Worlds == 0..(NWorld - 1)
Geoms == 0..1
Pairs == {0}

\* MJ_MINVAL and MJ_MINMU (mujoco_warp/_src/types.py); solmix is counted in units
\* of MJ_MINVAL / 2 and friction in units of MJ_MINMU / 2
MJ_MINVAL == 2
MJ_MINMU == 2

Max(a, b) == IF a > b THEN a ELSE b
Min(a, b) == IF a < b THEN a ELSE b

\* wp.max and wp.min of two vectors are elementwise
MaxVec(a, b) == [i \in DOMAIN a |-> Max(a[i], b[i])]
MinVec(a, b) == [i \in DOMAIN a |-> Min(a[i], b[i])]

\* A quotient n / d, d > 0, is kept as <<n, d>>.
FracEq(a, b) == a[1] * b[2] = b[1] * a[2]
FracOfVec(a) == [i \in DOMAIN a |-> <<a[i], 1>>]

\* mix * a + (1.0 - mix) * b, for a quotient mix and vectors a, b
LerpVec(mix, a, b) ==
  [i \in DOMAIN a |-> <<mix[1] * a[i] + (mix[2] - mix[1]) * b[i], mix[2]>>]

\* safe_div (mujoco_warp/_src/math.py): x / y, with MJ_MINVAL for a zero divisor
safe_div(x, y) == <<x, IF y # 0 THEN y ELSE MJ_MINVAL>>

GeomArrays ==
  { "geom_solmix", "geom_solref", "geom_solimp", "geom_friction", "geom_margin", "geom_gap" }
PairArrays ==
  { "pair_solref", "pair_solreffriction", "pair_solimp", "pair_margin", "pair_gap",
    "pair_friction" }
ViewArrays == { "geom_xpos_in", "geom_xmat_in", "geom_size" }

\* shape[0] of every per-world array: gr rows for the geom_* arrays of Model, pr for
\* the pair_* arrays, nworld for the arrays of Data
ShapeOf(gr, pr) ==
  [a \in GeomArrays \cup PairArrays \cup ViewArrays |->
     IF a \in GeomArrays \cup {"geom_size"} THEN gr
     ELSE IF a \in PairArrays THEN pr
     ELSE NWorld]

\* a sequence of per-geom values as the row of an array indexed by geom id
RowOf(v) == [g \in Geoms |-> v[g + 1]]

SolmixVals == {0, 1, 2, 6}
FrictionVals == { <<0, 0, 0>>, <<4, 1, 2>>, <<1, 4, 0>> }
SolrefVals == { <<2, 1>>, <<0, 3>> }
SolimpVals == { <<1, 2, 3, 4, 5>>, <<5, 4, 3, 2, 1>> }
PriorityVals == { RowOf(<<0, 0>>), RowOf(<<1, 0>>), RowOf(<<0, 1>>) }
CondimVals == {1, 3}

\* the geom_* arrays of Model contact_params reads
GeomModels ==
  [geom_condim : [Geoms -> CondimVals], geom_priority : PriorityVals,
   geom_solmix : [Geoms -> SolmixVals], geom_solref : [Geoms -> SolrefVals],
   geom_solimp : [Geoms -> SolimpVals], geom_friction : [Geoms -> FrictionVals],
   geom_margin : {RowOf(<<1, 2>>)}, geom_gap : {RowOf(<<0, 1>>)}]

\* the pair_* arrays of Model
PairModels ==
  [pair_dim : [Pairs -> CondimVals],
   pair_solref : [Pairs -> SolrefVals], pair_solreffriction : [Pairs -> {<<0, 0>>, <<2, 1>>}],
   pair_solimp : [Pairs -> SolimpVals], pair_margin : [Pairs -> {3}], pair_gap : [Pairs -> {1}],
   pair_friction : [Pairs -> { <<0, 0, 0, 0, 0>>, <<4, 3, 1, 0, 2>> }]]

DefaultGeomModel ==
  [geom_condim |-> RowOf(<<3, 1>>), geom_priority |-> RowOf(<<0, 0>>),
   geom_solmix |-> RowOf(<<6, 6>>), geom_solref |-> RowOf(<< <<2, 1>>, <<2, 1>> >>),
   geom_solimp |-> RowOf(<< <<1, 2, 3, 4, 5>>, <<1, 2, 3, 4, 5>> >>),
   geom_friction |-> RowOf(<< <<4, 1, 2>>, <<4, 1, 2>> >>),
   geom_margin |-> RowOf(<<1, 2>>), geom_gap |-> RowOf(<<0, 1>>)]

DefaultPairModel ==
  [pair_dim |-> [p \in Pairs |-> 3],
   pair_solref |-> [p \in Pairs |-> <<2, 1>>], pair_solreffriction |-> [p \in Pairs |-> <<0, 0>>],
   pair_solimp |-> [p \in Pairs |-> <<1, 2, 3, 4, 5>>], pair_margin |-> [p \in Pairs |-> 3],
   pair_gap |-> [p \in Pairs |-> 1], pair_friction |-> [p \in Pairs |-> <<4, 3, 1, 0, 2>>]]

\* what a read past the last row of a pair_* array may return
JunkVals ==
  [pair_solref : {<<0, 0>>}, pair_solreffriction : {<<0, 0>>}, pair_solimp : {<<0, 0, 0, 0, 0>>},
   pair_margin : {0}, pair_gap : {0},
   pair_friction : { <<0, 0, 0, 0, 0>>, <<-1, 7, 0, -3, 1>> }]

\* the arguments of a contact_params call: the candidate's world id, its override tag
\* collision_pairid_in[cid][0], its geoms collision_pair_in[cid], and the Model arrays
ParamInput(w, shape, pid, geom, pair) ==
  [worldid |-> w, shape0 |-> shape, pairid |-> pid, geoms |-> <<0, 1>>] @@ geom @@ pair

(***************************************************************************)
(* contact_params                                                          *)
(***************************************************************************)
\* arr[r, i]
ReadRow(arr, nrows, r, i, junk) == IF r < nrows THEN arr[i] ELSE junk

\* MixWeight without the thresholds of lines 303-305
MixWeightUnguarded(solmix1, solmix2) == safe_div(solmix1, solmix1 + solmix2)

\* lines 302-305
MixWeight(solmix1, solmix2) ==
  LET m0 == safe_div(solmix1, solmix1 + solmix2)
      m1 == IF solmix1 < MJ_MINVAL /\ solmix2 < MJ_MINVAL THEN <<1, 2>> ELSE m0
      m2 == IF solmix1 < MJ_MINVAL /\ solmix2 >= MJ_MINVAL THEN <<0, 1>> ELSE m1
  IN  IF solmix1 >= MJ_MINVAL /\ solmix2 < MJ_MINVAL THEN <<1, 1>> ELSE m2

\* PriorityMix taking geom 1's friction when geom 2 has the higher priority
PriorityMixFirstFriction(p1, p2, solmix1, solmix2, condim1, condim2, friction1, friction2) ==
  IF p1 > p2
    THEN [mix |-> <<1, 1>>, condim |-> condim1, max_geom_friction |-> friction1]
  ELSE IF p2 > p1
    THEN [mix |-> <<0, 1>>, condim |-> condim2, max_geom_friction |-> friction1]
  ELSE [mix |-> MixWeight(solmix1, solmix2), condim |-> Max(condim1, condim2),
        max_geom_friction |-> MaxVec(friction1, friction2)]

\* lines 293-307: mix, condim and max_geom_friction from the priorities p1, p2
PriorityMix(p1, p2, solmix1, solmix2, condim1, condim2, friction1, friction2) ==
  IF p1 > p2
    THEN [mix |-> <<1, 1>>, condim |-> condim1, max_geom_friction |-> friction1]
  ELSE IF p2 > p1
    THEN [mix |-> <<0, 1>>, condim |-> condim2, max_geom_friction |-> friction2]
  ELSE [mix |-> MixWeight(solmix1, solmix2), condim |-> Max(condim1, condim2),
        max_geom_friction |-> MaxVec(friction1, friction2)]

\* lines 309-315
ExpandFriction(f) == << f[1], f[1], f[2], f[3], f[3] >>

\* ClampFriction on the first three components only
ClampFrictionFirstThree(f) == [i \in 1..5 |-> IF i <= 3 THEN Max(MJ_MINMU, f[i]) ELSE f[i]]

\* lines 328-334
ClampFriction(f) == [i \in 1..5 |-> Max(MJ_MINMU, f[i])]

\* lines 265-272: the pair override; the pair_* arrays are indexed [worldid, pairid]
OverrideParams(in, junk) ==
  LET rd(a) == ReadRow(in[a], in.shape0[a], in.worldid, in.pairid, junk[a]) IN
  [margin |-> rd("pair_margin"), gap |-> rd("pair_gap"), condim |-> in.pair_dim[in.pairid],
   friction |-> rd("pair_friction"), solref |-> FracOfVec(rd("pair_solref")),
   solreffriction |-> rd("pair_solreffriction"), solimp |-> FracOfVec(rd("pair_solimp")),
   mix |-> << >>,
   rows |-> [a \in PairArrays |-> in.worldid]]

\* lines 273-326: mixing of the two geoms' parameters
MixedParams(in) ==
  LET g1 == in.geoms[1]
      g2 == in.geoms[2]
      id(a) == in.worldid % in.shape0[a]
      rd(a, g) == ReadRow(in[a], in.shape0[a], id(a), g, << >>)
      pm == PriorityMix(in.geom_priority[g1], in.geom_priority[g2],
                        rd("geom_solmix", g1), rd("geom_solmix", g2),
                        in.geom_condim[g1], in.geom_condim[g2],
                        rd("geom_friction", g1), rd("geom_friction", g2))
      solref1 == rd("geom_solref", g1)
      solref2 == rd("geom_solref", g2)
  IN
  [margin |-> rd("geom_margin", g1) + rd("geom_margin", g2),
   gap |-> rd("geom_gap", g1) + rd("geom_gap", g2),
   condim |-> pm.condim,
   friction |-> ExpandFriction(pm.max_geom_friction),
   solref |-> IF solref1[1] > 0 /\ solref2[1] > 0
                THEN LerpVec(pm.mix, solref1, solref2)
                ELSE FracOfVec(MinVec(solref1, solref2)),
   solreffriction |-> <<0, 0>>,
   solimp |-> LerpVec(pm.mix, rd("geom_solimp", g1), rd("geom_solimp", g2)),
   mix |-> pm.mix,
   rows |-> [a \in GeomArrays |-> id(a)]]

\* lines 259-336; next to the returned tuple, mix and the row indexed in every
\* per-world array
contact_params(in, junk) ==
  LET r == IF in.pairid > -1 THEN OverrideParams(in, junk) ELSE MixedParams(in) IN
  [geoms |-> in.geoms, margin |-> r.margin, gap |-> r.gap, condim |-> r.condim,
   friction |-> ClampFriction(r.friction), solref |-> r.solref,
   solreffriction |-> r.solreffriction, solimp |-> r.solimp, mix |-> r.mix, rows |-> r.rows]

\* the variables of the commit protocol, untouched by the resolver and the view builder
CommitVars == << cand, nacon, contact, pc, cid, nstored, ret, writes >>

\* a pair evaluation resolves the parameters of a candidate without a pair override,
\* over the geom models
ResolveMixed ==
  /\ res = NoCall
  /\ \E w \in Worlds, gr \in {1, NWorld}, pid \in {-2, -1}, geom \in GeomModels :
       LET in == ParamInput(w, ShapeOf(gr, NWorld), pid, geom, DefaultPairModel) IN
       res' = [fn |-> "contact_params", in |-> in, out |-> contact_params(in, << >>)]
  /\ UNCHANGED CommitVars

\* a pair evaluation resolves the parameters of a candidate with a pair override,
\* over the pair models
ResolveOverride ==
  /\ res = NoCall
  /\ \E w \in Worlds, pr \in {1, NWorld}, pid \in Pairs, pair \in PairModels, junk \in JunkVals :
       LET in == ParamInput(w, ShapeOf(NWorld, pr), pid, DefaultGeomModel, pair) IN
       res' = [fn |-> "contact_params", in |-> in, out |-> contact_params(in, junk)]
  /\ UNCHANGED CommitVars

(***************************************************************************)
(* geom_collision_pair                                                     *)
(***************************************************************************)
GeomTypes == { "MESH", "SPHERE" }

\* geom_xpos_in[w, g], geom_xmat_in[w, g] (the identity or a quarter turn about x)
\* and geom_size[r, g] of the step
XposOf(w, g) == << w, g, 1 >>
XmatOf(w, g) ==
  IF (w + g) % 2 = 0
    THEN << <<1, 0, 0>>, <<0, 1, 0>>, <<0, 0, 1>> >>
    ELSE << <<1, 0, 0>>, <<0, 0, -1>>, <<0, 1, 0>> >>
SizeOf(g) == << g + 1, 2, 3 >>

\* the mesh tables: one mesh, with data id 0
MeshTable ==
  [mesh_vertadr |-> 4, mesh_vertnum |-> 8, mesh_graphadr |-> 2, mesh_polynum |-> 6,
   mesh_polyadr |-> 1]

MeshArrays ==
  { "mesh_vert", "mesh_graph", "mesh_polynormal", "mesh_polyvertadr", "mesh_polyvertnum",
    "mesh_polyvert", "mesh_polymapadr", "mesh_polymapnum", "mesh_polymap" }

ViewInputs ==
  [worldid : Worlds, shape0 : { ShapeOf(gr, NWorld) : gr \in {1, NWorld} }, geoms : {<<0, 1>>},
   geom_type : [Geoms -> GeomTypes], geom_dataid : [Geoms -> {-1, 0}]]

\* lines 92-93, 100-104, 112-128, 148-149 for one geom (the same lines for the other);
\* Geom() is zero-initialised, arrays the set of mesh arrays the view refers to
GeomView(in, g) ==
  LET rot == XmatOf(in.worldid, g)
      mesh == in.geom_type[g] = "MESH"
      dataid == in.geom_dataid[g]
      adr(a) == IF ~mesh THEN 0 ELSE IF dataid >= 0 THEN MeshTable[a] ELSE -1
  IN
  [pos |-> XposOf(in.worldid, g),
   rot |-> rot,
   size |-> SizeOf(g),
   normal |-> << rot[1][3], rot[2][3], rot[3][3] >>,
   vertadr |-> adr("mesh_vertadr"), vertnum |-> adr("mesh_vertnum"),
   graphadr |-> adr("mesh_graphadr"), mesh_polynum |-> adr("mesh_polynum"),
   mesh_polyadr |-> adr("mesh_polyadr"),
   arrays |-> IF mesh THEN MeshArrays ELSE {},
   index |-> -1,
   margin |-> 0]

\* lines 92-154; next to the two views, the row indexed in every per-world array
geom_collision_pair(in) ==
  [geom1 |-> GeomView(in, in.geoms[1]), geom2 |-> GeomView(in, in.geoms[2]),
   rows |-> [a \in ViewArrays |->
               IF a = "geom_size" THEN in.worldid % in.shape0[a] ELSE in.worldid]]

\* a pair evaluation builds the views of its two geoms
BuildViews ==
  /\ res = NoCall
  /\ \E in \in ViewInputs :
       res' = [fn |-> "geom_collision_pair", in |-> in, out |-> geom_collision_pair(in)]
  /\ UNCHANGED CommitVars

\* one pair evaluation of a step, up to the commit
InitParams == InitCommit({[t \in Tasks |-> StepCandidates[1]]})

NextParams == BuildViews \/ ResolveMixed \/ ResolveOverride

SpecParams == InitParams /\ [][NextParams]_vars

(***************************************************************************)
(* mujoco_warp/_src/util_pkg.py: _parse_version and check_version.         *)
(* A string is the sequence of its characters.                             *)
(***************************************************************************)
\* longest required version and longest installed version
MaxReqLen == 2
MaxInstLen == 3

Digits == { "1", "2" }
Separators == { ".", "-" }
VersionChars == Digits \cup { "a" } \cup Separators

\* the code point order of the characters, by which Python compares strings
CodeOf(ch) ==
  CASE ch = "-" -> 45 [] ch = "." -> 46 [] ch = "1" -> 49 [] ch = "2" -> 50
    [] ch = "<" -> 60 [] ch = "=" -> 61 [] ch = ">" -> 62 [] ch = "a" -> 97
    [] ch = "p" -> 112 [] OTHER -> 33

DigitValue(ch) == IF ch = "1" THEN 1 ELSE 2

StringsUpTo(n) == UNION { [1..k -> VersionChars] : k \in 1..n }

\* the characters the package name of a spec may consist of: [a-zA-Z0-9_\-]
NameChars == Digits \cup { "a", "p", "-" }

\* the operators in the order the regular expression of line 63 tries them
Operators ==
  << <<">", "=">>, <<"<", "=">>, <<">">>, <<"<">>, <<"=", "=">>, <<"!", "=">> >>

RECURSIVE Split(_)
\* line 38: re.split(r"[.\-]", version_str)
Split(str) ==
  IF \A i \in 1..Len(str) : str[i] \notin Separators
    THEN << str >>
    ELSE LET k == CHOOSE i \in 1..Len(str) :
                    str[i] \in Separators /\ \A j \in 1..(i - 1) : str[j] \notin Separators
         IN  << SubSeq(str, 1, k - 1) >> \o Split(SubSeq(str, k + 1, Len(str)))

\* str.isdigit()
IsDigit(p) == p # << >> /\ \A i \in 1..Len(p) : p[i] \in Digits

RECURSIVE IntOf(_)
\* int(p)
IntOf(p) ==
  IF p = << >> THEN 0 ELSE 10 * IntOf(SubSeq(p, 1, Len(p) - 1)) + DigitValue(p[Len(p)])

\* lines 38-39
_parse_version(version_str) ==
  LET parts == Split(version_str) IN
  [i \in 1..Len(parts) |-> IF IsDigit(parts[i]) THEN <<0, IntOf(parts[i])>> ELSE <<1, parts[i]>>]

\* a < b for two strings
StrLess(a, b) ==
  \/ Len(a) < Len(b) /\ \A i \in 1..Len(a) : a[i] = b[i]
  \/ \E i \in 1..Min(Len(a), Len(b)) :
       /\ \A j \in 1..(i - 1) : a[j] = b[j]
       /\ CodeOf(a[i]) < CodeOf(b[i])

\* equality and order of two components (type_order, value)
PartEq(x, y) == x[1] = y[1] /\ x[2] = y[2]
PartLess(x, y) ==
  \/ x[1] < y[1]
  \/ x[1] = y[1] /\ (IF x[1] = 0 THEN x[2] < y[2] ELSE StrLess(x[2], y[2]))

\* equality and order of two tuples of components, as Python compares tuples
TupleEq(a, b) == Len(a) = Len(b) /\ \A i \in 1..Len(a) : PartEq(a[i], b[i])
TupleLess(a, b) ==
  \/ Len(a) < Len(b) /\ \A i \in 1..Len(a) : PartEq(a[i], b[i])
  \/ \E i \in 1..Min(Len(a), Len(b)) :
       /\ \A j \in 1..(i - 1) : PartEq(a[j], b[j])
       /\ PartLess(a[i], b[i])

\* ApplyOp with operator.gt and operator.lt exchanged
ApplyOpExchanged(op, a, b) ==
  CASE op = <<">", "=">> -> ~TupleLess(a, b)
    [] op = <<"<", "=">> -> TupleLess(a, b) \/ TupleEq(a, b)
    [] op = <<">">> -> TupleLess(a, b)
    [] op = <<"<">> -> TupleLess(b, a)
    [] op = <<"=", "=">> -> TupleEq(a, b)
    [] OTHER -> ~TupleEq(a, b)

\* lines 71-79: ops[op](a, b)
ApplyOp(op, a, b) ==
  CASE op = <<">", "=">> -> ~TupleLess(a, b)
    [] op = <<"<", "=">> -> TupleLess(a, b) \/ TupleEq(a, b)
    [] op = <<">">> -> TupleLess(b, a)
    [] op = <<"<">> -> TupleLess(a, b)
    [] op = <<"=", "=">> -> TupleEq(a, b)
    [] OTHER -> ~TupleEq(a, b)

\* whether str has the characters of op from position k on
HasAt(str, k, op) ==
  k + Len(op) - 1 <= Len(str) /\ \A i \in 1..Len(op) : str[k + i - 1] = op[i]

\* lines 63-66: the match of ^([a-zA-Z0-9_\-]+)(>=|<=|>|<|==|!=)(.+)$; the name is the
\* longest prefix of name characters, the operator the first alternative that leaves
\* a version of at least one character
MatchSpec(spec) ==
  LET n == CHOOSE k \in 0..Len(spec) :
             /\ \A i \in 1..k : spec[i] \in NameChars
             /\ k < Len(spec) => spec[k + 1] \notin NameChars
      fits == { i \in 1..Len(Operators) :
                  HasAt(spec, n + 1, Operators[i]) /\ n + Len(Operators[i]) < Len(spec) }
  IN  IF n = 0 \/ fits = {}
        THEN [ok |-> FALSE]
        ELSE LET o == Operators[CHOOSE i \in fits : \A j \in fits : i <= j] IN
             [ok |-> TRUE, package_name |-> SubSeq(spec, 1, n), op |-> o,
              version_str |-> SubSeq(spec, n + Len(o) + 1, Len(spec))]

\* lines 63-79, with the version importlib.metadata reports for the package
check_version(spec, installed) ==
  LET m == MatchSpec(spec) IN
  IF ~m.ok
    THEN "ValueError"
    ELSE ApplyOp(m.op, _parse_version(installed), _parse_version(m.version_str))

\* a call check_version("p" + op + required) with the package installed
CheckVersion ==
  /\ res = NoCall
  /\ \E required \in StringsUpTo(MaxReqLen), installed \in StringsUpTo(MaxInstLen),
        k \in 1..Len(Operators) :
       LET spec == <<"p">> \o Operators[k] \o required IN
       res' = [fn |-> "check_version", op |-> Operators[k], required |-> required,
               spec |-> spec, installed |-> installed, out |-> check_version(spec, installed)]
  /\ UNCHANGED CommitVars

\* a call check_version(spec) with a spec the regular expression rejects
CheckInvalid ==
  /\ res = NoCall
  /\ \E spec \in { <<"p">>, <<">", "=", "1">>, <<"p", "=", "1">>, <<"p", ">">> } :
       res' = [fn |-> "check_version", op |-> << >>, required |-> << >>,
               spec |-> spec, installed |-> <<"1">>, out |-> check_version(spec, <<"1">>)]
  /\ UNCHANGED CommitVars

InitVersion == InitParams

NextVersion == CheckVersion \/ CheckInvalid

SpecVersion == InitVersion /\ [][NextVersion]_vars

(***************************************************************************)
(* Properties of the commit protocol.                                      *)
(***************************************************************************)
AllDone == \A t \in Tasks : pc[t] = "done"

\* the pair wants no constraint, or the contact is not active, and no sensor is attached
WantsNoRecord(c) == (c.pairid[1] = -2 \/ c.dist >= c.margin) /\ c.pairid[2] = -1

NonDropped == { t \in Tasks : ~WantsNoRecord(cand[t]) }

\* the tasks that stored into cell i of some array
WritersOf(i) == { w[3] : w \in { v \in writes : v[1] = i } }

\* every array holds at index i the value task t stores there
HoldsRecordOf(i, t) ==
  /\ i \in DOMAIN contact
  /\ WritersOf(i) = {t}
  /\ \A f \in Fields : <<i, f, t>> \in writes /\ contact[i][f] = <<StoredValue(f, t, cand[t])>>

\* C1: no store ever goes to an index >= capacity; and once capacity + K (K >= 0)
\* non-dropped calls have completed on an initially empty buffer, the counter is
\* capacity + K and exactly capacity records were written, one at each index
\* 0..capacity-1.
C1_OverflowKeepsCapacity ==
  /\ \A w \in writes : w[1] < naconmax
  /\ (AllDone /\ Cardinality(NonDropped) >= naconmax) =>
       /\ nacon = Cardinality(NonDropped)
       /\ { w[1] : w \in writes } = 0..(naconmax - 1)
       /\ Cardinality({ <<w[1], w[3]>> : w \in writes }) = naconmax
       /\ \A i \in 0..(naconmax - 1) : \A f \in Fields : contact[i][f] # Stale

C1_Witness ==
  /\ AllDone
  /\ Cardinality(NonDropped) > naconmax
  /\ nacon = Cardinality(NonDropped)
  /\ \A i \in 0..(naconmax - 1) : \E t \in Tasks : HoldsRecordOf(i, t)

C3_TypeBits ==
  \A t \in Tasks :
    pc[t] = "done" =>
      /\ cid[t] \in DOMAIN contact =>
           LET ty == contact[cid[t]]["type"][1] IN
             /\ ty \in 0..3
             /\ HasFlag(ty, CONSTRAINT) <=> (cand[t].pairid[1] >= -1 /\ cand[t].dist < cand[t].margin)
             /\ HasFlag(ty, SENSOR) <=> (cand[t].pairid[2] >= 0)
      /\ (cand[t].pairid[1] = -2 /\ cand[t].pairid[2] >= 0 /\ cand[t].dist >= cand[t].margin) =>
           /\ cid[t] >= 0
           /\ cid[t] \in DOMAIN contact => contact[cid[t]]["type"] = <<SENSOR>>

C3_Witness ==
  \E t, u \in Tasks :
    /\ pc[t] = "done" /\ cand[t].pairid = <<-2, 0>> /\ cand[t].dist >= cand[t].margin
    /\ cid[t] \in DOMAIN contact /\ contact[cid[t]]["type"] = <<SENSOR>>
    /\ pc[u] = "done" /\ cid[u] \in DOMAIN contact /\ contact[cid[u]]["type"] = <<CONSTRAINT + SENSOR>>

\* C4 as stated: once every task has completed, every index of [0, counter) holds a
\* complete record, all of whose fields were written by one commit call.
C4_CompleteUpToCounter ==
  AllDone => \A i \in 0..(nacon - 1) : \E t \in Tasks : HoldsRecordOf(i, t)

\* C4 amended: once every task has completed, every index of
\* [0, min(counter, capacity)) holds a complete record, all of whose fields were
\* written by one commit call.
C4_CompleteUpToCapacity ==
  AllDone => \A i \in 0..(Min(nacon, naconmax) - 1) : \E t \in Tasks : HoldsRecordOf(i, t)

C4_Witness ==
  /\ AllDone
  /\ nacon = naconmax
  /\ \E t, u \in Tasks : t # u /\ HoldsRecordOf(0, t) /\ HoldsRecordOf(naconmax - 1, u)

\* C5: under any interleaving each call stores into at most one slot, no slot is
\* stored into by two calls, no cell is stored into twice, a stored cell never
\* changes afterwards, and a commit arriving when the buffer is full changes nothing.
C5_WrittenOnce ==
  [][ /\ \A w \in writes' \ writes : \A v \in writes :
           /\ ~(v[1] = w[1] /\ v[2] = w[2])
           /\ v[3] = w[3] => v[1] = w[1]
           /\ v[1] = w[1] => v[3] = w[3]
      /\ \A i \in DOMAIN contact : \A f \in Fields :
           contact[i][f] # Stale => contact'[i][f] = contact[i][f]
      /\ \A t \in Tasks :
           (pc[t] = "call" /\ pc'[t] # "call" /\ nacon >= naconmax) =>
             contact' = contact /\ writes' = writes /\ pc'[t] = "done" ]_vars

C5_Witness ==
  \E t, u, v \in Tasks :
    /\ pc[t] = "store" /\ pc[u] = "store" /\ cid[t] = 0 /\ cid[u] = 1
    /\ nstored[t] > 0 /\ nstored[u] > 0
    /\ pc[v] = "done" /\ cid[v] >= naconmax

\* C6: write_contact returns 1 if the contact is active (dist < margin), 0 otherwise.
C6_ReturnsActive ==
  \A t \in Tasks :
    pc[t] = "done" => ret[t] = (IF cand[t].dist < cand[t].margin THEN 1 ELSE 0)

\* the record the call of task t stores
RecordOf(t) == [f \in Fields |-> <<StoredValue(f, t, cand[t])>>]

\* the records held below the counter
HeldRecords == { contact[i] : i \in 0..(nacon - 1) }

\* C12: when the non-dropped commits of a step do not exceed the capacity, then after
\* all calls have completed the counter is their number and the records held in
\* [0, counter) are exactly their records, whichever way the tasks interleaved; only
\* the index of a record depends on the arrival order.
C12_SameRecordsAnyOrder ==
  (AllDone /\ Cardinality(NonDropped) <= naconmax) =>
    /\ nacon = Cardinality(NonDropped)
    /\ HeldRecords = { RecordOf(t) : t \in NonDropped }

C12_Witness ==
  /\ AllDone
  /\ Cardinality(NonDropped) = naconmax
  /\ nacon = naconmax
  /\ \E t, u \in NonDropped :
       /\ t < u
       /\ cand[t] # cand[u]
       /\ contact[0] = RecordOf(u)
       /\ contact[naconmax - 1] = RecordOf(t)

(***************************************************************************)
(* Properties of the parameter resolver and the view builder.              *)
(***************************************************************************)
Resolved == res.fn = "contact_params"

\* the candidate has no pair override: contact_params mixes the two geoms
Mixed == Resolved /\ res.in.pairid < 0

Priority1 == res.in.geom_priority[res.in.geoms[1]]
Priority2 == res.in.geom_priority[res.in.geoms[2]]

\* the friction triple (sliding, torsional, rolling) on the five axes
Expanded(f) == << f[1], f[1], f[2], f[3], f[3] >>

\* C7: every per-world array the view builder and the resolver read is indexed with
\* row = worldId mod rowCount.
C7_ModuloRows ==
  res.fn # "none" =>
    \A a \in DOMAIN res.out.rows : res.out.rows[a] = res.in.worldid % res.in.shape0[a]

\* C8: each of the 5 components of the friction contact_params returns is >= MJ_MINMU,
\* on the pair-override path and on the mixing path.
C8_FrictionFloor ==
  Resolved => \A i \in 1..5 : res.out.friction[i] >= MJ_MINMU

C8_Witness ==
  /\ Resolved
  /\ res.in.pairid \in Pairs
  /\ res.in.worldid < res.in.shape0["pair_friction"]
  /\ res.in.pair_friction[res.in.pairid] = <<0, 0, 0, 0, 0>>
  /\ res.out.friction = [i \in 1..5 |-> MJ_MINMU]

\* the geom of strictly higher priority
Winner == IF Priority1 > Priority2 THEN res.in.geoms[1] ELSE res.in.geoms[2]

\* C9 as stated: without a pair override and with strictly ordered priorities, the
\* returned friction equals the higher-priority geom's friction triple expanded to five
\* components, and the returned condim is that geom's condim.
C9_WinnerFrictionExact ==
  (Mixed /\ Priority1 # Priority2) =>
    /\ res.out.friction = Expanded(res.in.geom_friction[Winner])
    /\ res.out.condim = res.in.geom_condim[Winner]

\* C9 amended: without a pair override and with strictly ordered priorities, the
\* returned friction equals the higher-priority geom's friction triple expanded to five
\* components with every component raised to at least MJ_MINMU, and the returned condim
\* is that geom's condim.
C9_WinnerFrictionClamped ==
  (Mixed /\ Priority1 # Priority2) =>
    /\ \A i \in 1..5 :
         res.out.friction[i] = Max(MJ_MINMU, Expanded(res.in.geom_friction[Winner])[i])
    /\ res.out.condim = res.in.geom_condim[Winner]

C9_Witness ==
  /\ Mixed
  /\ Priority2 > Priority1
  /\ res.in.geom_friction[res.in.geoms[1]] = <<4, 1, 2>>
  /\ res.in.geom_friction[res.in.geoms[2]] = <<1, 4, 0>>
  /\ res.in.geom_solmix[res.in.geoms[1]] = 6
  /\ res.in.geom_solmix[res.in.geoms[2]] = 0
  /\ res.in.geom_condim[res.in.geoms[1]] = 3
  /\ res.out.friction = <<MJ_MINMU, MJ_MINMU, 4, MJ_MINMU, MJ_MINMU>>
  /\ res.out.condim = 1

\* the mix weight of two geoms of equal priority
WeightOf(solmix1, solmix2) ==
  IF solmix1 < MJ_MINVAL /\ solmix2 < MJ_MINVAL THEN <<1, 2>>
  ELSE IF solmix1 < MJ_MINVAL THEN <<0, 1>>
  ELSE IF solmix2 < MJ_MINVAL THEN <<1, 1>>
  ELSE <<solmix1, solmix1 + solmix2>>

\* C10: without a pair override and with equal priorities, the mix weight is 0.5 when
\* both solmix are below MJ_MINVAL, 0.0 when only solmix1 is, 1.0 when only solmix2
\* is, solmix1 / (solmix1 + solmix2) otherwise, and the returned solimp is
\* weight * solimp1 + (1 - weight) * solimp2: geom 2's for weight 0.0, geom 1's for 1.0.
C10_MixWeight ==
  (Mixed /\ Priority1 = Priority2) =>
    LET g1 == res.in.geoms[1]
        g2 == res.in.geoms[2]
        w == WeightOf(res.in.geom_solmix[g1], res.in.geom_solmix[g2])
        solimp1 == res.in.geom_solimp[g1]
        solimp2 == res.in.geom_solimp[g2]
    IN  /\ FracEq(res.out.mix, w)
        /\ \A i \in 1..5 :
             /\ FracEq(res.out.solimp[i], <<w[1] * solimp1[i] + (w[2] - w[1]) * solimp2[i], w[2]>>)
             /\ w[1] = 0 => FracEq(res.out.solimp[i], <<solimp2[i], 1>>)
             /\ w[1] = w[2] => FracEq(res.out.solimp[i], <<solimp1[i], 1>>)

C10_Witness ==
  /\ Mixed
  /\ Priority1 = Priority2
  /\ res.in.geom_solmix[res.in.geoms[1]] = 1
  /\ res.in.geom_solmix[res.in.geoms[2]] = 6
  /\ res.in.geom_solimp[res.in.geoms[1]] = <<1, 2, 3, 4, 5>>
  /\ res.in.geom_solimp[res.in.geoms[2]] = <<5, 4, 3, 2, 1>>
  /\ res.out.mix = <<0, 1>>
  /\ \A i \in 1..5 : FracEq(res.out.solimp[i], <<6 - i, 1>>)

(***************************************************************************)
(* Properties of check_version.                                            *)
(***************************************************************************)
\* the installed version is the required one with further components appended
Extends(installed, required) ==
  /\ Len(installed) > Len(required)
  /\ SubSeq(installed, 1, Len(required)) = required
  /\ installed[Len(required) + 1] \in Separators

\* C11: for an installed version obtained from the required version v by appending
\* '.'- or '-'-separated components, check_version returns True for 'pkg>v' and
\* 'pkg>=v' and False for 'pkg<v', 'pkg<=v' and 'pkg==v'.
C11_LongerIsGreater ==
  (res.fn = "check_version" /\ res.required # << >> /\ Extends(res.installed, res.required)) =>
    /\ res.op \in { <<">">>, <<">", "=">> } => res.out = TRUE
    /\ res.op \in { <<"<">>, <<"<", "=">>, <<"=", "=">> } => res.out = FALSE

C11_Witness ==
  /\ res.fn = "check_version"
  /\ res.required = <<"1">>
  /\ res.installed = <<"1", "-", "a">>
  /\ res.op = <<"<", "=">>
  /\ res.out = FALSE

====
